---- MODULE Spec2Model ----
(***************************************************************************)
(* Student record service (src/server.js): an express application over a   *)
(* mongoose model.  The state is the student collection held by the store, *)
(* the position of the start-up code, the requests that are suspended at   *)
(* an await between their pre-check read and their write, and the response *)
(* sent by the latest step.                                                *)
(*                                                                         *)
(* Strings are sequences of characters, so that trimming, lowercasing and  *)
(* the e-mail pattern are computed and not assumed.  A character is a      *)
(* string: the character itself when it is ASCII ("\t", "\n", "\f", "\r"    *)
(* for the controls that have an escape), and the name of its code point,  *)
(* as in "U+00A0", otherwise.  Request bodies are JSON objects whose       *)
(* fields are strings; a body that express.json() cannot parse goes to the *)
(* error middleware.                                                       *)
(* Store calls are assumed to be answered (no connectivity loss after the  *)
(* start-up connection), the unique index on email is assumed built, and   *)
(* the clock is strictly increasing from one creation to the next.  The    *)
(* updatedAt stamp, which no handler reads, is left out of the documents.  *)
(***************************************************************************)
EXTENDS Integers, Sequences, FiniteSets, TLC

VARIABLES
  mainPc,       \* where the start-up code is: "connecting", "connected",
                \* "listening" or "exited"
  dbConnected,  \* mongoose.connect has resolved
  store,        \* the documents of the students collection
  nextId,       \* the _id the next new Student gets
  clock,        \* the createdAt the next saved document gets
  pc,           \* per slot: "idle", or the await a POST ("post_save") or a
                \* PUT ("put_update") handler is suspended at; slots have no
                \* counterpart in the code, they tell the handlers apart
  req,          \* per slot: the id and body of the suspended handler
  raceWon,      \* per slot, history: a handler with the same email wrote
                \* while this one was suspended, and nothing changed since
  last          \* the response sent by the latest step, with its request

vars == <<mainPc, dbConnected, store, nextId, clock, pc, req, raceWon, last>>

\* the number of students created in one behaviour
MaxStudents == 3

\* the number of POST and PUT handlers suspended at the same time between
\* their pre-check and their write
MaxInFlight == 2

Procs == 1..MaxInFlight

(***************************************************************************)
(* Strings                                                                 *)
(***************************************************************************)
UpperChars == <<"A","B","C","D","E","F","G","H","I","J","K","L","M",
                "N","O","P","Q","R","S","T","U","V","W","X","Y","Z">>
LowerChars == <<"a","b","c","d","e","f","g","h","i","j","k","l","m",
                "n","o","p","q","r","s","t","u","v","w","x","y","z">>
DigitChars == {"0","1","2","3","4","5","6","7","8","9"}

Range(s) == {s[i] : i \in DOMAIN s}

\* the white space and line terminators that String.prototype.trim strips
WhiteSpaceChars ==
  {"\t", "\n", "U+000B", "\f", "\r", " ", "U+00A0", "U+1680",
   "U+2000", "U+2001", "U+2002", "U+2003", "U+2004", "U+2005", "U+2006",
   "U+2007", "U+2008", "U+2009", "U+200A", "U+2028", "U+2029", "U+202F",
   "U+205F", "U+3000", "U+FEFF"}

IsSpace(c) == c \in WhiteSpaceChars

\* \w of a JavaScript regular expression: [A-Za-z0-9_]
IsWordChar(c) == c \in Range(UpperChars) \cup Range(LowerChars) \cup DigitChars \cup {"_"}

IsSeparator(c) == c \in {".", "-"}

\* cased letters outside ASCII: KELVIN SIGN, whose lower case is the ASCII k,
\* E WITH ACUTE as one letter among those whose lower case is one other
\* letter, and I WITH DOT ABOVE, whose lower case is i and a combining dot
OtherUpperChars == <<"U+212A", "U+00C9", "U+0130">>
OtherLowerChars == <<<<"k">>, <<"U+00E9">>, <<"i", "U+0307">>>>

\* the lower case of one character, which may be more than one character
ToLowerChar(c) ==
  IF c \in Range(UpperChars)
  THEN <<LowerChars[CHOOSE i \in DOMAIN UpperChars : UpperChars[i] = c]>>
  ELSE IF c \in Range(OtherUpperChars)
  THEN OtherLowerChars[CHOOSE i \in DOMAIN OtherUpperChars : OtherUpperChars[i] = c]
  ELSE <<c>>

\* String.prototype.toLowerCase, applied by the schema option lowercase: true
RECURSIVE ToLowerCase(_)
ToLowerCase(s) ==
  IF s = <<>> THEN <<>> ELSE ToLowerChar(Head(s)) \o ToLowerCase(Tail(s))

RECURSIVE TrimStart(_)
TrimStart(s) == IF s # <<>> /\ IsSpace(Head(s)) THEN TrimStart(Tail(s)) ELSE s

RECURSIVE TrimEnd(_)
TrimEnd(s) ==
  IF s # <<>> /\ IsSpace(s[Len(s)]) THEN TrimEnd(SubSeq(s, 1, Len(s) - 1)) ELSE s

\* String.prototype.trim, applied by the schema option trim: true
Trim(s) == TrimEnd(TrimStart(s))

\* \w+([.-]?\w+)* : word characters and single separators, a word character
\* first and last, no two separators in a row
MatchWords(s) ==
  /\ s # <<>>
  /\ IsWordChar(s[1])
  /\ IsWordChar(s[Len(s)])
  /\ \A i \in DOMAIN s : IsWordChar(s[i]) \/ IsSeparator(s[i])
  /\ \A i \in 1..(Len(s) - 1) : ~(IsSeparator(s[i]) /\ IsSeparator(s[i + 1]))

\* (\.\w{2,3})+ up to the end of the string
RECURSIVE MatchLabels(_)
MatchLabels(s) ==
  /\ Len(s) >= 3
  /\ s[1] = "."
  /\ \E k \in {2, 3} :
       /\ Len(s) >= 1 + k
       /\ \A i \in 2..(1 + k) : IsWordChar(s[i])
       /\ (Len(s) = 1 + k \/ MatchLabels(SubSeq(s, 2 + k, Len(s))))

\* /^\w+([.-]?\w+)*@\w+([.-]?\w+)*(\.\w{2,3})+$/.test(v)
EmailValidator(v) ==
  \E at \in DOMAIN v :
    /\ v[at] = "@"
    /\ MatchWords(SubSeq(v, 1, at - 1))
    /\ \E k \in (at + 1)..Len(v) :
         /\ MatchWords(SubSeq(v, at + 1, k))
         /\ MatchLabels(SubSeq(v, k + 1, Len(v)))

(***************************************************************************)
(* Schema                                                                  *)
(***************************************************************************)
Fields == {"name", "address", "city", "state", "email", "phone"}

\* the setters of one schema path: trim on every path, lowercase on email
ApplySetters(f, v) == IF f = "email" THEN ToLowerCase(Trim(v)) ELSE Trim(v)

\* new Student({...}) and the casting of an update: every path through its setters
CastFields(b) == [f \in Fields |-> ApplySetters(f, b[f])]

\* a schema without validators
NoValidators(d) == TRUE

\* required: true on every path, and the validator of email
ValidateFields(d) ==
  /\ \A f \in Fields : d[f] # <<>>
  /\ EmailValidator(d["email"])

\* a query filter whose email is compared as sent
QueryEmailAsSent(e) == e

\* the casting of the email of a query filter (setters run on query filters)
CastQueryEmail(e) == ApplySetters("email", e)

\* an id that mongoose cannot cast to an ObjectId
MalformedId == 0

IsObjectId(id) == id # MalformedId

(***************************************************************************)
(* Request inputs                                                          *)
(***************************************************************************)
Str(c) == <<c>>

EmailRaw   == <<"\t"," ","A","@","b",".","c","o","U+00A0">>
EmailA     == <<"a","@","b",".","c","o">>
EmailC     == <<"c","@","b",".","c","o">>
EmailD     == <<"U+212A","-","e","@","b",".","c","o","m">>
EmailNoTld == <<"a","@","b">>

Body(n, e) ==
  [name |-> n, address |-> Str("s"), city |-> Str("c"), state |-> Str("t"),
   email |-> e, phone |-> Str("1")]

BodyX == Body(<<" ","x","\n">>, EmailRaw)
BodyY == Body(Str("y"), EmailA)
BodyZ == Body(Str("z"), EmailC)
BodyW == Body(Str("w"), EmailD)
BodyBadEmail == Body(Str("y"), EmailNoTld)
BodyBlankName == Body(<<" ","\t">>, EmailC)

Without(b, f) == [g \in (DOMAIN b) \ {f} |-> b[g]]

FullBodies == {BodyX, BodyY, BodyZ, BodyW, BodyBadEmail, BodyBlankName}

\* one body per field left out, and one per field sent as the empty string
PartialBodies ==
  {Without(BodyY, f) : f \in Fields} \cup {[BodyZ EXCEPT ![f] = <<>>] : f \in Fields}

Bodies == FullBodies \cup PartialBodies

NoBody == Without(Without(Without(Without(Without(Without(BodyY,
            "name"), "address"), "city"), "state"), "email"), "phone")

\* the ids a request may name: the malformed one, those the service has issued,
\* and one it never issues
IdParams == 0..(MaxStudents + 1)

(***************************************************************************)
(* The store                                                               *)
(***************************************************************************)
Document(id, d, created) ==
  [id |-> id, name |-> d["name"], address |-> d["address"], city |-> d["city"],
   state |-> d["state"], email |-> d["email"], phone |-> d["phone"],
   createdAt |-> created]

\* a lookup that forgets the id
FindAny(s, id) == s

\* Student.findById(id): the set is empty where the code gets null
FindById(s, id) == {r \in s : r.id = id}

\* Student.findOne({ email })
FindOneByEmail(s, email) == {r \in s : r.email = CastQueryEmail(email)}

\* the filter of PUT without its $ne
FindOneByEmailAnyId(s, email, id) == {r \in s : r.email = CastQueryEmail(email)}

\* Student.findOne({ email, _id: { $ne: id } })
FindOneByEmailNotId(s, email, id) ==
  {r \in s : r.email = CastQueryEmail(email) /\ r.id # id}

\* no unique index on email
NoUniqueIndex(s, email, id) == FALSE

\* the unique index on email: would writing `email` into document `id`
\* collide with another document
DuplicateKey(s, email, id) == \E r \in s : r.email = email /\ r.id # id

\* Student.find().sort({ createdAt: -1 })
RECURSIVE SortByCreatedAtDesc(_)
SortByCreatedAtDesc(s) ==
  IF s = {} THEN <<>>
  ELSE LET m == CHOOSE r \in s : \A o \in s : o.createdAt <= r.createdAt
       IN  <<m>> \o SortByCreatedAtDesc(s \ {m})

\* an update that stamps createdAt anew
CreatedAtNow(r, now) == now

\* the createdAt a successful update leaves on the document
CreatedAtAfterUpdate(r, now) == r.createdAt

\* an update that writes nothing
DocumentKept(r, d, now) == r

\* findByIdAndUpdate(id, fields, { new: true }) on a document that exists
UpdatedDocument(r, d, now) == Document(r.id, d, CreatedAtAfterUpdate(r, now))

(***************************************************************************)
(* Responses                                                               *)
(***************************************************************************)
MsgAllFields    == "All fields are required"
MsgExists       == "Student with this email already exists"
MsgNotFound     == "Student not found"
MsgCreateError  == "Error creating student"
MsgUpdateError  == "Error updating student"
MsgFetchError   == "Error fetching student"
MsgDeleteError  == "Error deleting student"
MsgDeleted      == "Student deleted successfully"
MsgHealth       == "Server is running successfully"
MsgWentWrong    == "Something went wrong!"
MsgNone         == ""

\* res.status(status).json(...) at `line` of server.js
Reply(line, status, message) == [line |-> line, status |-> status, message |-> message]

\* error.code of the store's duplicate-key error
DuplicateKeyCode == 11000

\* error.code of a ValidationError or a CastError, which carry none
NoCode == 0

\* a catch block of POST without the branch on error.code
PostCatchNoBranch(code) == Reply(132, 400, MsgCreateError)

\* the catch block of POST
PostCatch(code) ==
  IF code = DuplicateKeyCode
  THEN Reply(130, 400, MsgExists)
  ELSE Reply(132, 400, MsgCreateError)

\* the catch block of PUT
PutCatch(code) ==
  IF code = DuplicateKeyCode
  THEN Reply(175, 400, MsgExists)
  ELSE Reply(177, 400, MsgUpdateError)

\* a check that tests phone against undefined only, so that '' passes
PhoneMayBeEmpty(b) ==
  \A f \in Fields : f \in DOMAIN b /\ (f = "phone" \/ b[f] # <<>>)

\* !name || !address || !city || !state || !email || !phone is false
AllFieldsPresent(b) == \A f \in Fields : f \in DOMAIN b /\ b[f] # <<>>

NoRequest == [id |-> MalformedId, body |-> NoBody]

NoResponse ==
  [op |-> "none", id |-> MalformedId, body |-> NoBody, line |-> 0, status |-> 0,
   message |-> MsgNone, docs |-> <<>>]

\* a response, with the request it answers
Response(op, id, b, r, docs) ==
  [op |-> op, id |-> id, body |-> b, line |-> r.line, status |-> r.status,
   message |-> r.message, docs |-> docs]

(***************************************************************************)
(* Start-up                                                                *)
(***************************************************************************)
Init ==
  /\ mainPc = "connecting"
  /\ dbConnected = FALSE
  /\ store = {}
  /\ nextId = 1
  /\ clock = 1
  /\ pc = [p \in Procs |-> "idle"]
  /\ req = [p \in Procs |-> NoRequest]
  /\ raceWon = [p \in Procs |-> FALSE]
  /\ last = NoResponse

\* a catch block that logs and returns, so that connectDB() resolves
ConnectDBCatchReturns == "connected"

\* where the catch block of connectDB leaves the start-up code: process.exit(1)
ConnectDBCatch == "exited"

\* await mongoose.connect(...) resolves
ConnectDBSuccess ==
  /\ mainPc = "connecting"
  /\ mainPc' = "connected"
  /\ dbConnected' = TRUE
  /\ UNCHANGED <<store, nextId, clock, pc, req, raceWon, last>>

\* await mongoose.connect(...) rejects
ConnectDBFail ==
  /\ mainPc = "connecting"
  /\ mainPc' = ConnectDBCatch
  /\ UNCHANGED <<dbConnected, store, nextId, clock, pc, req, raceWon, last>>

\* connectDB().then(() => app.listen(PORT, ...))
Listen ==
  /\ mainPc = "connected"
  /\ mainPc' = "listening"
  /\ UNCHANGED <<dbConnected, store, nextId, clock, pc, req, raceWon, last>>

(***************************************************************************)
(* Handlers.  A handler that awaits the store once is one step; POST and   *)
(* PUT await twice and are two steps, the handler of slot p being          *)
(* suspended in between, while any other request is served.  `last` is the *)
(* response the latest step sent.                                          *)
(***************************************************************************)
\* slot p is the first of the free slots: the handler that gets suspended next
\* is told apart by it
FreeSlot(p) == pc[p] = "idle" /\ \A q \in Procs : pc[q] = "idle" => p <= q

\* a handler answers without touching the collection or a suspended handler
AnswerOnly(op, id, b, r) ==
  /\ last' = Response(op, id, b, r, <<>>)
  /\ UNCHANGED <<mainPc, dbConnected, store, nextId, clock, pc, req, raceWon>>

\* slot p's handler ends
Finish(p) ==
  /\ pc' = [pc EXCEPT ![p] = "idle"]
  /\ req' = [req EXCEPT ![p] = NoRequest]

\* slot p's handler ends with an answer that leaves the collection alone
FinishUnchanged(p, op, r) ==
  /\ last' = Response(op, req[p].id, req[p].body, r, <<>>)
  /\ Finish(p)
  /\ raceWon' = [raceWon EXCEPT ![p] = FALSE]
  /\ UNCHANGED <<mainPc, dbConnected, store, nextId, clock>>

\* history: a suspended handler q that passed its pre-check for `email` has
\* seen slot p's write of it succeed, and no other change of the collection since
NoteWrite(p, email) ==
  raceWon' = [q \in Procs |->
                /\ q # p
                /\ pc[q] # "idle"
                /\ CastQueryEmail(req[q].body["email"]) = email]

\* GET /api/students
GetStudents ==
  /\ mainPc = "listening"
  /\ last' = Response("list", MalformedId, NoBody, Reply(82, 200, MsgNone),
                      SortByCreatedAtDesc(store))
  /\ UNCHANGED <<mainPc, dbConnected, store, nextId, clock, pc, req, raceWon>>

\* GET /api/students/:id
GetStudent(id) ==
  /\ mainPc = "listening"
  /\ IF ~IsObjectId(id)
     THEN AnswerOnly("get", id, NoBody, Reply(97, 500, MsgFetchError))
     ELSE IF FindById(store, id) = {}
     THEN AnswerOnly("get", id, NoBody, Reply(93, 404, MsgNotFound))
     ELSE /\ last' = Response("get", id, NoBody, Reply(95, 200, MsgNone),
                              <<CHOOSE r \in FindById(store, id) : TRUE>>)
          /\ UNCHANGED <<mainPc, dbConnected, store, nextId, clock, pc, req, raceWon>>

\* POST /api/students up to the answer of findOne
PostStudentBegin(p, b) ==
  /\ mainPc = "listening"
  /\ IF ~AllFieldsPresent(b)
     THEN AnswerOnly("create", MalformedId, b, Reply(108, 400, MsgAllFields))
     ELSE IF FindOneByEmail(store, b["email"]) # {}
     THEN AnswerOnly("create", MalformedId, b, Reply(114, 400, MsgExists))
     ELSE /\ FreeSlot(p)
          /\ pc' = [pc EXCEPT ![p] = "post_save"]
          /\ req' = [req EXCEPT ![p] = [id |-> MalformedId, body |-> b]]
          /\ last' = NoResponse
          /\ UNCHANGED <<mainPc, dbConnected, store, nextId, clock, raceWon>>

\* POST /api/students from new Student(...) to the answer of save
PostStudentSave(p) ==
  LET d == CastFields(req[p].body) IN
  /\ mainPc = "listening"
  /\ pc[p] = "post_save"
  /\ IF ~ValidateFields(d)
     THEN FinishUnchanged(p, "create", PostCatch(NoCode))
     ELSE IF DuplicateKey(store, d["email"], nextId)
     THEN FinishUnchanged(p, "create", PostCatch(DuplicateKeyCode))
     ELSE LET doc == Document(nextId, d, clock) IN
          /\ nextId <= MaxStudents
          /\ store' = store \cup {doc}
          /\ nextId' = nextId + 1
          /\ clock' = clock + 1
          /\ last' = Response("create", MalformedId, req[p].body,
                              Reply(127, 201, MsgNone), <<doc>>)
          /\ Finish(p)
          /\ NoteWrite(p, d["email"])
          /\ UNCHANGED <<mainPc, dbConnected>>

\* PUT /api/students/:id up to the answer of findOne
PutStudentBegin(p, id, b) ==
  /\ mainPc = "listening"
  /\ IF ~AllFieldsPresent(b)
     THEN AnswerOnly("update", id, b, Reply(143, 400, MsgAllFields))
     ELSE IF ~IsObjectId(id)
     THEN AnswerOnly("update", id, b, PutCatch(NoCode))
     ELSE IF FindOneByEmailNotId(store, b["email"], id) # {}
     THEN AnswerOnly("update", id, b, Reply(152, 400, MsgExists))
     ELSE /\ FreeSlot(p)
          /\ pc' = [pc EXCEPT ![p] = "put_update"]
          /\ req' = [req EXCEPT ![p] = [id |-> id, body |-> b]]
          /\ last' = NoResponse
          /\ UNCHANGED <<mainPc, dbConnected, store, nextId, clock, raceWon>>

\* PUT /api/students/:id from findByIdAndUpdate to its answer
PutStudentUpdate(p) ==
  LET id == req[p].id
      d  == CastFields(req[p].body) IN
  /\ mainPc = "listening"
  /\ pc[p] = "put_update"
  /\ IF ~ValidateFields(d)
     THEN FinishUnchanged(p, "update", PutCatch(NoCode))
     ELSE IF FindById(store, id) = {}
     THEN FinishUnchanged(p, "update", Reply(169, 404, MsgNotFound))
     ELSE IF DuplicateKey(store, d["email"], id)
     THEN FinishUnchanged(p, "update", PutCatch(DuplicateKeyCode))
     ELSE LET old == CHOOSE r \in FindById(store, id) : TRUE
              doc == UpdatedDocument(old, d, clock) IN
          /\ store' = (store \ {old}) \cup {doc}
          /\ last' = Response("update", id, req[p].body,
                              Reply(172, 200, MsgNone), <<doc>>)
          /\ Finish(p)
          /\ NoteWrite(p, d["email"])
          /\ UNCHANGED <<mainPc, dbConnected, nextId, clock>>

\* DELETE /api/students/:id
DeleteStudent(id) ==
  /\ mainPc = "listening"
  /\ IF ~IsObjectId(id)
     THEN AnswerOnly("delete", id, NoBody, Reply(190, 500, MsgDeleteError))
     ELSE IF FindById(store, id) = {}
     THEN AnswerOnly("delete", id, NoBody, Reply(186, 404, MsgNotFound))
     ELSE /\ store' = store \ FindById(store, id)
          /\ last' = Response("delete", id, NoBody, Reply(188, 200, MsgDeleted), <<>>)
          /\ raceWon' = [q \in Procs |-> FALSE]
          /\ UNCHANGED <<mainPc, dbConnected, nextId, clock, pc, req>>

\* GET /api/health
Health ==
  /\ mainPc = "listening"
  /\ AnswerOnly("health", MalformedId, NoBody, Reply(196, 200, MsgHealth))

\* app.use((err, req, res, next) => ...): express.json() could not parse the
\* body of a request, and no route handler runs
ErrorMiddleware ==
  /\ mainPc = "listening"
  /\ AnswerOnly("error", MalformedId, NoBody, Reply(202, 500, MsgWentWrong))

\* a client names a malformed id, an id the service has issued, or one that
\* it never issues: an id is not known before the save that generates it
Addressable(id) == id < nextId \/ id > MaxStudents

\* the steps of the service over request bodies B and ids I
Step(B, I) ==
  \/ ConnectDBSuccess
  \/ ConnectDBFail
  \/ Listen
  \/ GetStudents
  \/ \E id \in {i \in I : Addressable(i)} : GetStudent(id)
  \/ \E p \in Procs, b \in B : PostStudentBegin(p, b)
  \/ \E p \in Procs : PostStudentSave(p)
  \/ \E p \in Procs, id \in {i \in I : Addressable(i)}, b \in B : PutStudentBegin(p, id, b)
  \/ \E p \in Procs : PutStudentUpdate(p)
  \/ \E id \in {i \in I : Addressable(i)} : DeleteStudent(id)
  \/ Health
  \/ ErrorMiddleware

\* the service over every body and every id
Next == Step(Bodies, IdParams)

Spec == Init /\ [][Next]_vars

\* the service over the bodies and ids that make suspended handlers collide:
\* one email in two spellings and another one, a malformed email, a blank
\* name and a missing field; two ids it issues and one it never issues
RaceBodies == {BodyX, BodyZ, BodyBadEmail, BodyBlankName, Without(BodyY, "phone")}

RaceIds == {1, 2, MaxStudents + 1}

NextRace == Step(RaceBodies, RaceIds)

SpecRace == Init /\ [][NextRace]_vars

\* the service over every body with a field missing or empty, two bodies
\* that are complete, and a malformed, an issued and a never issued id
FieldBodies == PartialBodies \cup {BodyY, BodyZ}

FieldIds == {MalformedId, 1, MaxStudents + 1}

NextFields == Step(FieldBodies, FieldIds)

SpecFields == Init /\ [][NextFields]_vars

\* the service over three bodies with three emails, and the ids of three records
ListBodies == {BodyX, BodyZ, BodyW}

ListIds == 1..MaxStudents

NextList == Step(ListBodies, ListIds)

SpecList == Init /\ [][NextList]_vars

(***************************************************************************)
(* Vocabulary of the properties                                            *)
(***************************************************************************)
NormalizedEmail(e) == ToLowerCase(Trim(e))

Ids(s) == {r.id : r \in s}

SixPresent(b) == \A f \in Fields : f \in DOMAIN b /\ b[f] # <<>>

\* every field is non-blank once trimmed and the email has the pattern
FieldsValid(b) ==
  /\ \A f \in Fields : Trim(b[f]) # <<>>
  /\ EmailValidator(NormalizedEmail(b["email"]))

NormalizedFields(b) ==
  [f \in Fields |-> IF f = "email" THEN NormalizedEmail(b[f]) ELSE Trim(b[f])]

HasFields(r, d) == \A f \in Fields : r[f] = d[f]

\* a record other than `id` holds the normalized email of b
OwnedByOther(s, b, id) ==
  \E r \in s : r.email = NormalizedEmail(b["email"]) /\ r.id # id

Success(status) == status \in {200, 201}

\* this step sends the response of a handler of `op`
Answers(op) == last' # NoResponse /\ last'.op = op

AnswersWith(op, status, message) ==
  /\ Answers(op)
  /\ last'.status = status
  /\ last'.message = message

\* the handler of slot p sends its response after its write
Completes(p) == pc[p] # "idle" /\ pc'[p] = "idle"

\* a request of `op` is answered by its first step
AnsweredAtOnce(op) == Answers(op) /\ pc' = pc

\* a request is suspended after its pre-check
Suspends(p, at) == pc[p] = "idle" /\ pc'[p] = at

\* this step is the first step of a POST (`at` "post_save") or of a PUT
\* (`at` "put_update"): it answers at once or suspends the handler
Arrives(op, at) == AnsweredAtOnce(op) \/ \E p \in Procs : Suspends(p, at)

\* the id and the body of the request of which this step is the first
Arriving(at) ==
  IF last' # NoResponse
  THEN [id |-> last'.id, body |-> last'.body]
  ELSE req'[CHOOSE p \in Procs : Suspends(p, at)]

CreateArrives == Arrives("create", "post_save")

UpdateArrives == Arrives("update", "put_update")

\* the store raises its duplicate-key error on the write of slot p
DuplicateKeySignal(p) ==
  /\ FieldsValid(req[p].body)
  /\ pc[p] = "put_update" => req[p].id \in Ids(store)
  /\ OwnedByOther(store, req[p].body, req[p].id)

(***************************************************************************)
(* C1.  In every reachable state, whatever the interleaving of the         *)
(* pre-check reads and the writes of concurrent creates, updates and       *)
(* deletes, no two stored records have the same normalized email.          *)
(***************************************************************************)
UniqueEmails ==
  \A r1, r2 \in store :
    r1 # r2 => NormalizedEmail(r1.email) # NormalizedEmail(r2.email)

\* a handler is suspended past its pre-check while another record has taken
\* its email: its write would add a second holder
UniqueEmailsAtStake ==
  \E p \in Procs :
    /\ pc[p] # "idle"
    /\ raceWon[p]
    /\ OwnedByOther(store, req[p].body, req[p].id)

(***************************************************************************)
(* C2 as stated.  When two requests with the same email have both passed   *)
(* their pre-check before either wrote, at most one of them gets a success *)
(* status: the one that finishes after the other succeeded does not        *)
(* succeed.                                                                *)
(***************************************************************************)
RacersAtMostOneSuccess ==
  [][\A q \in Procs : (Completes(q) /\ raceWon[q]) => ~Success(last'.status)]_vars

(***************************************************************************)
(* C2 amended.  A racing request whose write the store rejects with its    *)
(* duplicate-key error answers 400 with the fixed message and changes no   *)
(* record; and, no other request having changed the collection in          *)
(* between, the request that finishes second succeeds only if it is an     *)
(* update of the very record that holds the email.                         *)
(***************************************************************************)
RaceLoserRejected ==
  [][\A q \in Procs : Completes(q) =>
        /\ DuplicateKeySignal(q) =>
             /\ last'.status = 400
             /\ last'.message = MsgExists
             /\ store' = store
        /\ (raceWon[q] /\ Success(last'.status)) =>
             /\ pc[q] = "put_update"
             /\ \A r \in store :
                  r.email = NormalizedEmail(req[q].body["email"]) => r.id = req[q].id
    ]_vars

\* the duplicate-key branch of a catch block has answered
RaceLoserAnswered ==
  /\ last.line \in {130, 175}
  /\ last.status = 400
  /\ last.message = MsgExists
  /\ OwnedByOther(store, last.body, last.id)

(***************************************************************************)
(* C10 as stated.  A create that fails at write time, by the email format  *)
(* or by a duplicate key, answers 400 with the message of the pre-check,   *)
(* 'Student with this email already exists', and persists nothing.         *)
(***************************************************************************)
CreateWriteFailureSaysExists ==
  [][\A p \in Procs :
        (Completes(p) /\ pc[p] = "post_save" /\ last'.status # 201) =>
           /\ last'.status = 400
           /\ last'.message = MsgExists
           /\ store' = store
    ]_vars

(***************************************************************************)
(* C10 amended.  A create that fails at write time answers 400 and         *)
(* persists nothing; the message is 'Student with this email already       *)
(* exists' for a duplicate key and 'Error creating student' for an email   *)
(* that does not match the pattern.                                        *)
(***************************************************************************)
CreateWriteFailures ==
  [][\A p \in Procs : (Completes(p) /\ pc[p] = "post_save") =>
        /\ ~EmailValidator(NormalizedEmail(req[p].body["email"])) =>
             AnswersWith("create", 400, MsgCreateError)
        /\ DuplicateKeySignal(p) => AnswersWith("create", 400, MsgExists)
        /\ last'.status # 201 => (last'.status = 400 /\ store' = store)
    ]_vars

\* the store has refused an email without a final label and kept nothing of it
CreateFormatRefused ==
  /\ last.op = "create"
  /\ last.line = 132
  /\ last.body = BodyBadEmail
  /\ \A r \in store : r.email # NormalizedEmail(EmailNoTld)

(***************************************************************************)
(* C3.  A create whose six fields are present and whose email, trimmed     *)
(* and lowercased, is the email of a stored record is answered at once     *)
(* with 400 and the duplicate-email message, and the record set is left    *)
(* as it was.                                                              *)
(***************************************************************************)
CreateDuplicateRejected ==
  [][CreateArrives =>
       LET b == Arriving("post_save").body IN
       (SixPresent(b) /\ OwnedByOther(store, b, MalformedId)) =>
          /\ AnswersWith("create", 400, MsgExists)
          /\ store' = store
          /\ pc' = pc
    ]_vars

\* the pre-check has refused an email that is stored only in its normalized form
CreateDuplicateRefused ==
  /\ last.op = "create"
  /\ last.line = 114
  /\ last.body["email"] # NormalizedEmail(last.body["email"])
  /\ OwnedByOther(store, last.body, MalformedId)

(***************************************************************************)
(* C4 as stated.  For a well-formed id that is not in the store, get-one,  *)
(* update and delete all answer 404 'Student not found', update doing so   *)
(* whatever the request body.                                              *)
(***************************************************************************)
AbsentIdAlwaysNotFound ==
  [][\A op \in {"get", "update", "delete"} :
        (Answers(op) /\ IsObjectId(last'.id) /\ last'.id \notin Ids(store)) =>
           /\ last'.status = 404
           /\ last'.message = MsgNotFound
    ]_vars

(***************************************************************************)
(* C4 amended.  For a well-formed id that is not in the store, get-one and *)
(* delete answer 404 'Student not found'.  Update answers 404 only after   *)
(* its body has passed the checks that come first: a missing or empty      *)
(* field is answered 400 'All fields are required', an email owned by a    *)
(* record 400 'Student with this email already exists', and a field that   *)
(* is blank once trimmed or an email without the pattern 400 'Error        *)
(* updating student'.  No record changes.                                  *)
(***************************************************************************)
AbsentIdNotFound ==
  [][/\ \A op \in {"get", "delete"} :
          (Answers(op) /\ IsObjectId(last'.id) /\ last'.id \notin Ids(store)) =>
             (AnswersWith(op, 404, MsgNotFound) /\ store' = store)
     /\ UpdateArrives =>
          LET id == Arriving("put_update").id
              b  == Arriving("put_update").body IN
          (IsObjectId(id) /\ id \notin Ids(store)) =>
             /\ ~SixPresent(b) => AnswersWith("update", 400, MsgAllFields)
             /\ (SixPresent(b) /\ OwnedByOther(store, b, id)) =>
                  AnswersWith("update", 400, MsgExists)
             /\ (SixPresent(b) /\ ~OwnedByOther(store, b, id)) =>
                  \E p \in Procs : Suspends(p, "put_update")
             /\ store' = store
     /\ \A p \in Procs :
          (Completes(p) /\ pc[p] = "put_update" /\ req[p].id \notin Ids(store)) =>
             /\ FieldsValid(req[p].body) => AnswersWith("update", 404, MsgNotFound)
             /\ ~FieldsValid(req[p].body) => AnswersWith("update", 400, MsgUpdateError)
             /\ store' = store
    ]_vars

\* findByIdAndUpdate has found nothing under the id of a valid body
AbsentIdUpdateAnswered ==
  /\ last.op = "update"
  /\ last.line = 169
  /\ last.status = 404
  /\ last.id \notin Ids(store)
  /\ store # {}

(***************************************************************************)
(* C5 as stated.  An update of an existing record with its six fields      *)
(* present is answered 400 with the duplicate-email message, no record     *)
(* changing, when another record owns the email, and 200 when the email    *)
(* is the record's own.                                                    *)
(***************************************************************************)
UpdateOwnEmailAlwaysSucceeds ==
  [][/\ UpdateArrives =>
          LET id == Arriving("put_update").id
              b  == Arriving("put_update").body IN
          (id \in Ids(store) /\ SixPresent(b) /\ OwnedByOther(store, b, id)) =>
             (AnswersWith("update", 400, MsgExists) /\ store' = store)
     /\ \A p \in Procs :
          (Completes(p) /\ pc[p] = "put_update" /\ SixPresent(req[p].body)
             /\ \E r \in store :
                  r.id = req[p].id /\ r.email = NormalizedEmail(req[p].body["email"])) =>
             last'.status = 200
    ]_vars

(***************************************************************************)
(* C5 amended.  An update of an existing record with its six fields        *)
(* present is answered 400 with the duplicate-email message, no record     *)
(* changing, when another record owns the email.  When the email is the    *)
(* record's own it passes the uniqueness check, and it is answered 200     *)
(* provided no field is blank once trimmed and the record is still there   *)
(* when the write happens.                                                 *)
(***************************************************************************)
UpdateExcludesItself ==
  [][/\ UpdateArrives =>
          LET id == Arriving("put_update").id
              b  == Arriving("put_update").body IN
          (id \in Ids(store) /\ SixPresent(b)) =>
             /\ OwnedByOther(store, b, id) =>
                  (AnswersWith("update", 400, MsgExists) /\ store' = store /\ pc' = pc)
             /\ ~OwnedByOther(store, b, id) =>
                  \E p \in Procs : Suspends(p, "put_update")
     /\ \A p \in Procs :
          (Completes(p) /\ pc[p] = "put_update" /\ FieldsValid(req[p].body)
             /\ \E r \in store :
                  r.id = req[p].id /\ r.email = NormalizedEmail(req[p].body["email"])) =>
             /\ AnswersWith("update", 200, MsgNone)
             /\ Ids(store') = Ids(store)
             /\ \E r \in store' :
                  r.id = req[p].id /\ HasFields(r, NormalizedFields(req[p].body))
    ]_vars

\* an update that keeps the email of its record has passed the uniqueness
\* check, while other records exist
UpdateKeepsOwnEmail ==
  \E p \in Procs :
    /\ pc[p] = "put_update"
    /\ \E r \in store :
         r.id = req[p].id /\ r.email = NormalizedEmail(req[p].body["email"])
    /\ \E r \in store : r.id # req[p].id

(***************************************************************************)
(* C6.  The round trip of one record, step by step, each step taken from   *)
(* the store the step before left: a create of a valid body with a fresh   *)
(* email answers 201 with a record under a new id; a get of a stored id    *)
(* answers 200 with the stored record, whose fields are those of the body  *)
(* last written, trimmed and the email lowercased; an update of it with a  *)
(* valid body whose email no other record owns answers 200 and leaves the  *)
(* fields of that body under the same id; a delete of it answers 200 and   *)
(* a get of the id then answers 404.                                       *)
(***************************************************************************)
RoundTrip ==
  [][/\ \A p \in Procs :
          (Completes(p) /\ pc[p] = "post_save" /\ FieldsValid(req[p].body)
             /\ ~OwnedByOther(store, req[p].body, MalformedId)) =>
             /\ AnswersWith("create", 201, MsgNone)
             /\ Len(last'.docs) = 1
             /\ last'.docs[1].id \notin Ids(store)
             /\ HasFields(last'.docs[1], NormalizedFields(req[p].body))
             /\ store' = store \cup {last'.docs[1]}
     /\ \A r \in store :
          (Answers("get") /\ last'.id = r.id) =>
             /\ AnswersWith("get", 200, MsgNone)
             /\ last'.docs = <<r>>
             /\ store' = store
     /\ \A p \in Procs :
          (Completes(p) /\ pc[p] = "put_update" /\ FieldsValid(req[p].body)
             /\ req[p].id \in Ids(store)
             /\ ~OwnedByOther(store, req[p].body, req[p].id)) =>
             /\ AnswersWith("update", 200, MsgNone)
             /\ Len(last'.docs) = 1
             /\ last'.docs[1].id = req[p].id
             /\ HasFields(last'.docs[1], NormalizedFields(req[p].body))
             /\ \E old \in store :
                  /\ old.id = req[p].id
                  /\ store' = (store \ {old}) \cup {last'.docs[1]}
     /\ \A r \in store :
          (Answers("delete") /\ last'.id = r.id) =>
             /\ AnswersWith("delete", 200, MsgDeleted)
             /\ store' = store \ {r}
             /\ r.id \notin Ids(store')
     /\ (Answers("get") /\ IsObjectId(last'.id) /\ last'.id \notin Ids(store)) =>
          AnswersWith("get", 404, MsgNotFound)
    ]_vars

\* the end of a round trip: an id the service issued is not found any more
RoundTripEnded ==
  /\ last.op = "get"
  /\ last.status = 404
  /\ IsObjectId(last.id)
  /\ last.id < nextId

(***************************************************************************)
(* C7.  A create or an update in which one of name, address, city, state,  *)
(* email, phone is absent or empty, whichever it is, is answered 400 'All  *)
(* fields are required' before the store is asked anything: whether the    *)
(* id is malformed or unknown and whether the email is owned, the answer   *)
(* is the same, and the record set is left as it was.                      *)
(***************************************************************************)
RefusedForMissingField ==
  /\ last' # NoResponse
  /\ last'.status = 400
  /\ last'.message = MsgAllFields
  /\ store' = store
  /\ pc' = pc

MissingFieldRejected ==
  [][/\ CreateArrives =>
          (~SixPresent(Arriving("post_save").body) => RefusedForMissingField)
     /\ UpdateArrives =>
          (~SixPresent(Arriving("put_update").body) => RefusedForMissingField)
    ]_vars

\* a body without its last field has been refused although a record owns its
\* email, which the pre-check would have reported
MissingFieldRefused ==
  /\ last.op \in {"create", "update"}
  /\ last.message = MsgAllFields
  /\ DOMAIN last.body = Fields \ {"phone"}
  /\ OwnedByOther(store, last.body, last.id)

(***************************************************************************)
(* C8.  List answers 200 with exactly the records of the store, the one    *)
(* created last first (ids are issued in the order of creation), and a     *)
(* successful update leaves every record at its position in the list.      *)
(***************************************************************************)
IdsOf(docs) == [i \in DOMAIN docs |-> docs[i].id]

ListNewestFirst ==
  [][/\ Answers("list") =>
          /\ last'.status = 200
          /\ Range(last'.docs) = store
          /\ Len(last'.docs) = Cardinality(store)
          /\ \A i, j \in DOMAIN last'.docs : i < j => last'.docs[i].id > last'.docs[j].id
          /\ store' = store
     /\ (Answers("update") /\ last'.status = 200) =>
          IdsOf(SortByCreatedAtDesc(store')) = IdsOf(SortByCreatedAtDesc(store))
    ]_vars

\* three records created one after the other are listed last first
ListedThree ==
  /\ last.op = "list"
  /\ last.status = 200
  /\ IdsOf(last.docs) = <<3, 2, 1>>

(***************************************************************************)
(* C9.  The service listens only after the store connection has been       *)
(* established, and handles requests only while listening; a failed        *)
(* connection ends the process, which then never listens and never         *)
(* connects again.                                                         *)
(***************************************************************************)
StartupSequential ==
  [][/\ mainPc' = "listening" => dbConnected'
     /\ mainPc # "exited"
     /\ (mainPc = "connecting" /\ ~dbConnected') => mainPc' = "exited"
     /\ (last' # last \/ store' # store \/ pc' # pc) =>
          (mainPc = "listening" /\ dbConnected)
    ]_vars

\* the connection failed and the process is gone without having listened
StartupFailed ==
  /\ mainPc = "exited"
  /\ ~dbConnected
  /\ last = NoResponse

====
